---------------------------- MODULE Spec2Model ----------------------------
(***************************************************************************)
(* A model of the music channel bot (src/bot.py): the quote composer, the  *)
(* staged track discovery, the track downloads and the admin handlers that *)
(* own the temporary files of a prepared post; and of the TgSound userbot  *)
(* (src/userbot.py).                                                       *)
(*                                                                         *)
(* The specifications of the module:                                       *)
(*   SpecQuote      fetch_quote, _clean_text, _format_quote_lines          *)
(*   SpecDiscovery  fetch_tracks_with_fallback, fetch_tracks_from_feeds    *)
(*   SpecPost       one genre_selected run, download_tracks, the callbacks *)
(*   Spec           the handlers of concurrent runs and the temp files     *)
(*   SpecPoll       poll_selected and the poll callbacks                   *)
(*   SpecUserbot    TgSoundUserbot: start, stop, search_and_download       *)
(* Text is modelled as a sequence of one-character strings.                *)
(***************************************************************************)
EXTENDS Integers, Sequences, FiniteSets, TLC

(***************************************************************************)
(* Bounds of the model.                                                    *)
(***************************************************************************)
\* entries one quote feed answers with, at most
MaxQuoteEntries == 1
\* entries one music feed answers with, at most (BigBody apart)
MaxFeedEntries == 2
\* genre_selected runs started in one behaviour, at most
MaxAcquisitions == 2
\* handle_post_publish runs in flight at a time, at most
MaxPublishes == 2
\* poll_selected runs started in one behaviour, at most
MaxPollRuns == 2
\* handle_poll_publish runs in flight at a time, at most
MaxPollPublishes == 2
\* calls of the userbot's methods in one behaviour, at most
MaxCalls == 2
\* the largest `limit` a search_and_download call is given
MaxLimit == 2
\* messages TgSoundBot posts to the chat in one behaviour, at most
MaxReplies == 3
\* the latest date (in seconds) a message of the chat carries
MaxClock == 1

(***************************************************************************)
(* Program constants.                                                      *)
(***************************************************************************)
\* textwrap.wrap(text, width=52)
QUOTE_WIDTH == 52
\* wrapped[:4]
QUOTE_MAX_LINES == 4
\* len(QUOTE_FEEDS)
NUM_QUOTE_FEEDS == 2
\* max(12, min_required)
POOL_BREAK == 12
\* title[:128], artist[:64]
TITLE_MAX == 128
ARTIST_MAX == 64
\* the quota of fetch_tracks_with_fallback: len(tracks) >= 2, tracks[:2]
REQUIRED == 2

VARIABLES
    \* ---- fetch_quote ----
    q_pc,        \* "idle" | "feeds" | "done"
    q_feed,      \* index into QUOTE_FEEDS of the next feed to request
    q_entries,   \* entries: list of the feed entries parsed so far
    q_failed,    \* number of quote feeds whose request raised (logged, swallowed)
    q_raw,       \* the raw text of the sampled entry (<<>> before the choice)
    q_result,    \* the text fetch_quote returned
    \* ---- fetch_tracks_with_fallback ----
    d_genre,     \* genre: the argument of the call
    d_pc,        \* "idle" | "fetch" (in fetch_tracks_from_feeds) | "done" | "raised"
    d_stage,     \* stage_id of the fetch_tracks_from_feeds call under way (4: best effort)
    d_todo,      \* feeds of that call still to be requested
    d_pool,      \* pool: tracks collected by that call, in order
    d_seen,      \* seen: audio URLs collected by that call
    d_tracks,    \* tracks returned by fetch_tracks_with_fallback
    d_stage_used,\* stage id returned by fetch_tracks_with_fallback (0 before)
    \* history of the call, read by the properties only
    d_requested, \* the feed requests made so far, as <<stage, feed>>
    d_got,       \* audio URLs carried by the bodies answered in the call under way
    d_failed,    \* number of feed requests that raised in the call under way
    d_stage_len, \* per stage, len(tracks) its call returned (-1: not run)
    d_emergency, \* number of EMERGENCY_TRACKS put into the result
    \* ---- the handlers of the admin chat and the files under temp_root ----
    fsm_state,     \* the chat's FSM state: "none" | "choosing_genre" | "choosing_poll"
    pending_posts, \* pending_posts: <<>> (no entry for the chat) or <<payload>>
    temp_files,    \* the files that exist under temp_root (by name)
    acq,           \* the genre_selected runs, in the order they started
    started,       \* number of genre_selected runs started
    pub,           \* the handle_post_publish runs in flight
    \* ---- the polls of the admin chat ----
    pending_polls, \* pending_polls: <<>> (no entry for the chat) or <<payload>>
    poll_run,      \* the poll_selected runs, in the order they started
    poll_started,  \* number of poll_selected runs started
    poll_pub,      \* the handle_poll_publish runs in flight
    previews,      \* message ids of the preview polls present in the admin chat
    channel_polls, \* the send_poll calls made to the channel, by the preview id
                   \* of the payload sent, in order
    \* ---- TgSoundUserbot ----
    u_started,     \* self._started
    u_lock,        \* self._lock: 0 (free) or the call that holds it
    client_state,  \* the pyrogram client: "stopped" | "starting" | "started" | "stopping"
    call,          \* the calls of start, stop and search_and_download
    history,       \* the chat with TgSoundBot, oldest message first
    replies,       \* number of messages TgSoundBot has posted
    clock          \* the date new messages of the chat carry

qvars == <<q_pc, q_feed, q_entries, q_failed, q_raw, q_result>>

dvars == <<d_genre, d_pc, d_stage, d_todo, d_pool, d_seen, d_tracks, d_stage_used,
           d_requested, d_got, d_failed, d_stage_len, d_emergency>>

bvars == <<fsm_state, pending_posts, temp_files, acq, started, pub>>

pvars == <<pending_polls, poll_run, poll_started, poll_pub, previews, channel_polls>>

uvars == <<u_started, u_lock, client_state, call, history, replies, clock>>

vars == <<qvars, dvars, bvars, pvars, uvars>>

\* what each specification leaves alone
q_others == <<dvars, bvars, pvars, uvars>>
d_others == <<qvars, bvars, pvars, uvars>>
b_others == <<qvars, dvars, pvars, uvars>>
p_others == <<qvars, dvars, uvars, pending_posts, temp_files, acq, started, pub>>
u_others == <<qvars, dvars, bvars, pvars>>

(***************************************************************************)
(* Generic helpers.                                                        *)
(***************************************************************************)
Min(S) == CHOOSE x \in S : \A y \in S : x <= y

Max(S) == CHOOSE x \in S : \A y \in S : x >= y

\* The elements of s at the positions K, in order.
Pick(s, K) ==
    [k \in 1..Cardinality(K) |->
        s[CHOOSE i \in K : Cardinality({j \in K : j <= i}) = k]]

RECURSIVE Flatten(_)
Flatten(ss) == IF ss = <<>> THEN <<>> ELSE Head(ss) \o Flatten(Tail(ss))

RECURSIVE SumLen(_)
SumLen(ss) == IF ss = <<>> THEN 0 ELSE Len(Head(ss)) + SumLen(Tail(ss))

\* A word of n letters, and words joined by single spaces.
Word(n) == [i \in 1..n |-> "a"]

RECURSIVE Words(_)
Words(lens) ==
    IF lens = <<>> THEN <<>>
    ELSE IF Len(lens) = 1 THEN Word(lens[1])
    ELSE Word(lens[1]) \o <<" ">> \o Words(Tail(lens))

(***************************************************************************)
(* _clean_text: re.sub(r"<[^>]+>", " ", value), re.sub(r"\s+", " ", .),    *)
(* strip().                                                                *)
(***************************************************************************)
IsSpace(c) == c \in {" ", "\t", "\n"}

\* Positions where the pattern <[^>]+> matches: a "<", one or more
\* characters other than ">", and a ">".
TagStarts(s) ==
    {i \in 1..Len(s) :
        /\ s[i] = "<"
        /\ i + 1 <= Len(s)
        /\ s[i + 1] # ">"
        /\ \E j \in (i + 2)..Len(s) : s[j] = ">"}

\* Each leftmost, non-overlapping match replaced by one space.
RECURSIVE StripTags(_)
StripTags(s) ==
    IF TagStarts(s) = {} THEN s
    ELSE LET i == Min(TagStarts(s))
             j == Min({k \in (i + 2)..Len(s) : s[k] = ">"})
         IN  SubSeq(s, 1, i - 1) \o <<" ">> \o StripTags(SubSeq(s, j + 1, Len(s)))

\* Each run of whitespace replaced by one space.
CollapseSpaces(s) ==
    LET keep == {i \in 1..Len(s) : ~IsSpace(s[i]) \/ i = 1 \/ ~IsSpace(s[i - 1])}
        kept == Pick(s, keep)
    IN  [i \in 1..Len(kept) |-> IF IsSpace(kept[i]) THEN " " ELSE kept[i]]

\* str.strip(): leading and trailing whitespace removed.
Strip(s) ==
    LET solid == {i \in 1..Len(s) : ~IsSpace(s[i])}
    IN  IF solid = {} THEN <<>> ELSE SubSeq(s, Min(solid), Max(solid))

clean_text(value) == Strip(CollapseSpaces(StripTags(value)))

(***************************************************************************)
(* textwrap.wrap(text, width) with the library defaults the code relies    *)
(* on: drop_whitespace, break_long_words, no indent, no max_lines.  The    *)
(* texts of the model hold no hyphen, so break_on_hyphens plays no part.   *)
(***************************************************************************)
IsBlank(chunk) == \A i \in 1..Len(chunk) : IsSpace(chunk[i])

\* TextWrapper._munge_whitespace: every whitespace character becomes a space.
MungeWhitespace(s) == [i \in 1..Len(s) |-> IF IsSpace(s[i]) THEN " " ELSE s[i]]

\* TextWrapper._split: the text cut into maximal runs of whitespace and of
\* other characters.
RECURSIVE SplitChunks(_)
SplitChunks(s) ==
    IF s = <<>> THEN <<>>
    ELSE LET other == {i \in 1..Len(s) : IsSpace(s[i]) # IsSpace(s[1])}
             n == IF other = {} THEN Len(s) ELSE Min(other) - 1
         IN  <<SubSeq(s, 1, n)>> \o SplitChunks(SubSeq(s, n + 1, Len(s)))

\* How many leading chunks fit on a line of the given width.
Fitting(chunks, width) ==
    Max({k \in 0..Len(chunks) : SumLen(SubSeq(chunks, 1, k)) <= width})

\* TextWrapper._wrap_chunks: one pass of its outer loop per line.
RECURSIVE WrapChunks(_, _, _)
WrapChunks(chunks, width, lines) ==
    IF chunks = <<>> THEN lines
    ELSE LET c0 == IF IsBlank(chunks[1]) /\ lines # <<>> THEN Tail(chunks) ELSE chunks
             k == Fitting(c0, width)
             cur0 == SubSeq(c0, 1, k)
             rest0 == SubSeq(c0, k + 1, Len(c0))
             long == rest0 # <<>> /\ Len(rest0[1]) > width
             \* _handle_long_word: the word is cut at the space left on the line
             space_left == IF width < 1 THEN 1 ELSE width - SumLen(cur0)
             cur1 == IF long THEN Append(cur0, SubSeq(rest0[1], 1, space_left)) ELSE cur0
             rest1 == IF long
                      THEN <<SubSeq(rest0[1], space_left + 1, Len(rest0[1]))>> \o Tail(rest0)
                      ELSE rest0
             cur2 == IF cur1 # <<>> /\ IsBlank(cur1[Len(cur1)])
                     THEN SubSeq(cur1, 1, Len(cur1) - 1) ELSE cur1
         IN  WrapChunks(rest1, width, IF cur2 # <<>> THEN Append(lines, Flatten(cur2)) ELSE lines)

\* The list of lines textwrap.wrap returns (empty chunks are dropped).
wrap(text, width) ==
    WrapChunks(SelectSeq(SplitChunks(MungeWhitespace(text)), LAMBDA c : c # <<>>), width, <<>>)

\* "\n".join(lines)
RECURSIVE JoinLines(_)
JoinLines(lines) ==
    IF lines = <<>> THEN <<>>
    ELSE IF Len(lines) = 1 THEN lines[1]
    ELSE lines[1] \o <<"\n">> \o JoinLines(Tail(lines))

(***************************************************************************)
(* _format_quote_lines                                                     *)
(***************************************************************************)
MUSIC_IS_LIFE == <<"M","u","s","i","c"," ","i","s"," ","l","i","f","e",".">>

FEEL_EVERY_BEAT == <<" ","F","e","e","l"," ","e","v","e","r","y"," ","b","e","a","t",".">>

\* The formatting without the cut to the first lines.
format_quote_lines_Mutant(text) ==
    IF text = <<>> THEN MUSIC_IS_LIFE
    ELSE LET w0 == wrap(text, QUOTE_WIDTH)
         IN  JoinLines(IF Len(w0) < 2 THEN wrap(text \o FEEL_EVERY_BEAT, QUOTE_WIDTH) ELSE w0)

format_quote_lines(text) ==
    IF text = <<>> THEN MUSIC_IS_LIFE
    ELSE LET w0 == wrap(text, QUOTE_WIDTH)
             w1 == IF Len(w0) < 2 THEN wrap(text \o FEEL_EVERY_BEAT, QUOTE_WIDTH) ELSE w0
             w2 == IF Len(w1) > QUOTE_MAX_LINES THEN SubSeq(w1, 1, QUOTE_MAX_LINES) ELSE w1
         IN  JoinLines(w2)

\* The newline-separated lines of a text, counted.
LineCount(text) == 1 + Cardinality({i \in 1..Len(text) : text[i] = "\n"})

(***************************************************************************)
(* The parts of the state a specification does not run stay as they are    *)
(* here.                                                                   *)
(***************************************************************************)
QuoteIdle ==
    /\ q_pc = "idle"
    /\ q_feed = 0
    /\ q_entries = <<>>
    /\ q_failed = 0
    /\ q_raw = <<>>
    /\ q_result = <<>>

DiscoveryIdle ==
    /\ d_genre = "Pop"
    /\ d_pc = "idle"
    /\ d_stage = 0
    /\ d_todo = <<>>
    /\ d_pool = <<>>
    /\ d_seen = {}
    /\ d_tracks = <<>>
    /\ d_stage_used = 0
    /\ d_requested = <<>>
    /\ d_got = {}
    /\ d_failed = 0
    /\ d_stage_len = [s \in 1..4 |-> -1]
    /\ d_emergency = 0

\* A genre_selected run that has not started.  image_path, tracks and
\* stage_used are its locals; the rest is history: whether the fallback
\* notice was sent, the files written so far, the track each downloaded file
\* came from, whether an empty file was kept as a track, the call that
\* raised into the except branch, and whether cancel_action ran during the run.
IdleAcquisition ==
    [pc |-> "idle", image_path |-> 0, tracks |-> <<>>, stage_used |-> 0,
     notice |-> FALSE, written |-> {}, sources |-> <<>>, accepted_empty |-> FALSE,
     cause |-> "", abandoned |-> FALSE]

IdlePublish == [pc |-> "idle", payload |-> <<>>]

\* A poll_selected run that has not started, with the template it was given;
\* a handle_poll_publish run that is not in flight.
IdlePollRun == [pc |-> "idle", key |-> ""]
IdlePollPublish == [pc |-> "idle", payload |-> <<>>]

\* A call that has not been made.  op is the method called; limit the
\* argument of search_and_download; start_ts, found and seen_file_ids its
\* locals; todo the messages the history iteration has still to yield and msg
\* the one being downloaded.  downloads is the history of the download_media
\* calls of the search: the message and whether a path came back.
IdleCall ==
    [pc |-> "idle", op |-> "", limit |-> 0, start_ts |-> 0, found |-> <<>>,
     seen_file_ids |-> {}, todo |-> <<>>, downloads |-> <<>>]

\* TgSoundUserbot.__init__: the lock is free, _started is False.
UserbotIdle ==
    /\ u_started = FALSE
    /\ u_lock = 0
    /\ client_state = "stopped"
    /\ call = [c \in 1..MaxCalls |-> IdleCall]
    /\ history = <<>>
    /\ replies = 0
    /\ clock = 0

BotIdle ==
    /\ fsm_state = "none"
    /\ pending_posts = <<>>
    /\ temp_files = {}
    /\ acq = [k \in 1..MaxAcquisitions |-> IdleAcquisition]
    /\ started = 0
    /\ pub = [p \in 1..MaxPublishes |-> IdlePublish]
    /\ pending_polls = <<>>
    /\ poll_run = [k \in 1..MaxPollRuns |-> IdlePollRun]
    /\ poll_started = 0
    /\ poll_pub = [p \in 1..MaxPollPublishes |-> IdlePollPublish]
    /\ previews = {}
    /\ channel_polls = <<>>

(***************************************************************************)
(* fetch_quote.  The handlers run only inside run(), which sets the HTTP   *)
(* session first, so the "session not initialized" error does not arise.   *)
(***************************************************************************)
FALLBACK_QUOTE ==
    <<"M","u","s","i","c"," ","g","i","v","e","s"," ","a"," ","s","o",
      "u","l"," ","t","o"," ","t","h","e"," ","u","n","i","v","e","r",
      "s","e",","," ","w","i","n","g","s"," ","t","o"," ","t","h","e",
      " ","m","i","n","d",","," ","f","l","i","g","h","t"," ","t","o",
      " ","t","h","e"," ","i","m","a","g","i","n","a","t","i","o","n",
      ","," ","a","n","d"," ","l","i","f","e"," ","t","o"," ","e","v",
      "e","r","y","t","h","i","n","g",".">>

\* The feed entries of the model: summary and title as feedparser gives them
\* (a missing key reads like an empty text in
\* sample.get("summary") or sample.get("title") or "Music is life.").
QuoteEntries ==
    { [summary |-> Words(<<2, 5>>),              title |-> Words(<<3>>)],
      [summary |-> <<"<","b","r",">">>,          title |-> Words(<<3>>)],
      [summary |-> <<>>,                         title |-> <<>>],
      [summary |-> <<>>,                         title |-> Words(<<20, 19>>)],
      [summary |-> Words(<<9, 9, 9, 9>>) \o <<"<","p",">">> \o Words(<<9, 9, 9, 9, 9>>),
                                                 title |-> <<>>],
      [summary |-> Words(<<30, 30, 30, 30, 30, 30, 30, 30, 30>>), title |-> <<>>],
      [summary |-> Word(300),                    title |-> <<>>],
      [summary |-> <<>>,                         title |-> Words(<<26, 26>>)] }

\* What one quote feed can answer with: up to MaxQuoteEntries entries (none
\* for an empty or unparsable body).
RECURSIVE SeqsUpTo(_, _)
SeqsUpTo(S, n) ==
    IF n = 0 THEN {<<>>}
    ELSE LET shorter == SeqsUpTo(S, n - 1)
         IN  shorter \cup {Append(s, e) : s \in {t \in shorter : Len(t) = n - 1}, e \in S}

QuoteFeedBodies == SeqsUpTo(QuoteEntries, MaxQuoteEntries)

InitQuote ==
    /\ DiscoveryIdle
    /\ BotIdle
    /\ UserbotIdle
    /\ q_pc = "feeds"
    /\ q_feed = 1
    /\ q_entries = <<>>
    /\ q_failed = 0
    /\ q_raw = <<>>
    /\ q_result = <<>>

\* The request of one quote feed raises (timeout, HTTP status): logged only.
QuoteFeedFails ==
    /\ q_pc = "feeds"
    /\ q_feed <= NUM_QUOTE_FEEDS
    /\ q_feed' = q_feed + 1
    /\ q_failed' = q_failed + 1
    /\ UNCHANGED <<q_pc, q_entries, q_raw, q_result, q_others>>

\* One quote feed answers: entries.extend(parsed.entries).
QuoteFeedAnswers ==
    /\ q_pc = "feeds"
    /\ q_feed <= NUM_QUOTE_FEEDS
    /\ \E body \in QuoteFeedBodies : q_entries' = q_entries \o body
    /\ q_feed' = q_feed + 1
    /\ UNCHANGED <<q_pc, q_failed, q_raw, q_result, q_others>>

\* if not entries: return the built-in quote, as it is.
QuoteFallback ==
    /\ q_pc = "feeds"
    /\ q_feed > NUM_QUOTE_FEEDS
    /\ q_entries = <<>>
    /\ q_result' = FALLBACK_QUOTE
    /\ q_pc' = "done"
    /\ UNCHANGED <<q_feed, q_entries, q_failed, q_raw, q_others>>

\* raw = sample.get("summary") or sample.get("title") or "Music is life."
RawText(sample) ==
    IF sample.summary # <<>> THEN sample.summary
    ELSE IF sample.title # <<>> THEN sample.title
    ELSE MUSIC_IS_LIFE

\* text = self._format_quote_lines(self._clean_text(raw)), entry by entry.
Formatted == [sample \in QuoteEntries |-> format_quote_lines(clean_text(RawText(sample)))]

\* sample = random.choice(entries); clean and format its text.
QuoteChoose ==
    /\ q_pc = "feeds"
    /\ q_feed > NUM_QUOTE_FEEDS
    /\ q_entries # <<>>
    /\ \E i \in 1..Len(q_entries) :
          /\ q_raw' = RawText(q_entries[i])
          /\ q_result' = Formatted[q_entries[i]]
    /\ q_pc' = "done"
    /\ UNCHANGED <<q_feed, q_entries, q_failed, q_others>>

NextQuote ==
    \/ QuoteFeedFails
    \/ QuoteFeedAnswers
    \/ QuoteFallback
    \/ QuoteChoose

SpecQuote == InitQuote /\ [][NextQuote]_vars

(***************************************************************************)
(* C10: fetch_quote always returns text of 2 to 4 newline-separated lines, *)
(* whatever the quote feeds answer (all failing or empty, an entry whose   *)
(* cleaned text is empty, a short text, a long text).                      *)
(***************************************************************************)
C10_QuoteHasTwoToFourLines ==
    q_pc = "done" => LineCount(q_result) \in 2..QUOTE_MAX_LINES

\* The text _format_quote_lines was given: the cleaned raw text, raw text by
\* raw text.
Cleaned == [sample \in QuoteEntries |-> clean_text(RawText(sample))]

CleanedRaw(raw) == Cleaned[CHOOSE sample \in QuoteEntries : RawText(sample) = raw]

\* The lengths of the newline-separated lines of a text.
RECURSIVE LineLengths(_)
LineLengths(text) ==
    LET breaks == {i \in 1..Len(text) : text[i] = "\n"}
    IN  IF breaks = {} THEN <<Len(text)>>
        ELSE <<Min(breaks) - 1>> \o LineLengths(SubSeq(text, Min(breaks) + 1, Len(text)))

\* A text without its whitespace.
NoSpaces(text) == SelectSeq(text, LAMBDA c : ~IsSpace(c))

(***************************************************************************)
(* C11: for a cleaned text longer than 52 characters, _format_quote_lines  *)
(* returns 2 to 4 lines of at most 52 characters each, which are the text  *)
(* wrapped (only whitespace is lost) and cut after the fourth line: the    *)
(* whole text when there are fewer than 4 lines, a prefix of it otherwise. *)
(***************************************************************************)
C11_LongTextWrapsToTwoToFourLines ==
    (q_pc = "done" /\ q_entries # <<>> /\ Len(CleanedRaw(q_raw)) > QUOTE_WIDTH) =>
        LET text == CleanedRaw(q_raw)
            lens == LineLengths(q_result)
            kept == NoSpaces(q_result)
        IN  /\ Len(lens) \in 2..QUOTE_MAX_LINES
            /\ \A i \in 1..Len(lens) : lens[i] \in 1..QUOTE_WIDTH
            /\ Len(kept) <= Len(NoSpaces(text))
            /\ kept = SubSeq(NoSpaces(text), 1, Len(kept))
            /\ Len(lens) < QUOTE_MAX_LINES => kept = NoSpaces(text)

\* The 300-character text without a space came back as 4 lines of 52.
C11_Witness ==
    /\ q_pc = "done"
    /\ Len(q_raw) = 300
    /\ LineLengths(q_result) = <<52, 52, 52, 52>>

(***************************************************************************)
(* Tracks, feeds and feed entries.                                         *)
(***************************************************************************)
Track(title, artist, audio_url) ==
    [title |-> title, artist |-> artist, audio_url |-> audio_url]

SOUNDHELIX == <<"S","o","u","n","d","H","e","l","i","x">>

EMERGENCY_TRACKS ==
    << Track(<<"S","o","u","n","d","H","e","l","i","x"," ","S","o","n","g"," ","1">>,
             SOUNDHELIX, "https://www.soundhelix.com/examples/mp3/SoundHelix-Song-1.mp3"),
       Track(<<"S","o","u","n","d","H","e","l","i","x"," ","S","o","n","g"," ","2">>,
             SOUNDHELIX, "https://www.soundhelix.com/examples/mp3/SoundHelix-Song-2.mp3") >>

GENRES == <<"Pop", "Rock", "Hip-Hop", "Electronic">>

\* MUSIC_FEEDS_BY_GENRE.get(genre, []): one archive.org query per genre.
MusicFeedsByGenre(genre) ==
    CASE genre = "Pop"        -> <<"archive.org?q=pop">>
      [] genre = "Rock"       -> <<"archive.org?q=rock">>
      [] genre = "Hip-Hop"    -> <<"archive.org?q=hip-hop">>
      [] genre = "Electronic" -> <<"archive.org?q=electronic">>
      [] OTHER                -> <<>>

GENERAL_MUSIC_FEEDS == <<"archive.org?q=all">>

POPULAR_MUSIC_FEEDS == <<"archive.org?q=downloads">>

UNKNOWN_TRACK == <<"U","n","k","n","o","w","n"," ","t","r","a","c","k">>

UNKNOWN_ARTIST == <<"U","n","k","n","o","w","n"," ","a","r","t","i","s","t">>

\* entry.get(key, default): an entry is a record that may lack the key.
Get(entry, key, default) == IF key \in DOMAIN entry THEN entry[key] ELSE default

\* s[:n]
Prefix(s, n) == SubSeq(s, 1, IF Len(s) < n THEN Len(s) ELSE n)

\* A link of an entry: its href, whether href.lower() ends with ".mp3", whether
\* its type holds "audio", whether its rel is "enclosure".
Link(href, mp3, type_audio, rel_enclosure) ==
    [href |-> href, mp3 |-> mp3, type_audio |-> type_audio, rel_enclosure |-> rel_enclosure]

\* _extract_track: <<>> for None, <<track>> otherwise.
extract_track(entry) ==
    LET links == Get(entry, "links", <<>>)
        from_links == SelectSeq(links, LAMBDA item :
                          item.href # "" /\ (item.mp3 \/ item.type_audio \/ item.rel_enclosure))
        direct == Get(entry, "enclosures", <<>>)
        from_enclosures == SelectSeq(direct, LAMBDA encl :
                          encl.href # "" /\ (encl.mp3 \/ encl.type_audio))
        possible_urls == IF from_links # <<>> THEN from_links ELSE from_enclosures
        title == clean_text(Get(entry, "title", UNKNOWN_TRACK))
        author == IF Get(entry, "author", <<>>) # <<>> THEN entry.author
                  ELSE IF Get(entry, "creator", <<>>) # <<>> THEN entry.creator
                  ELSE IF Get(entry, "artist", <<>>) # <<>> THEN entry.artist
                  ELSE UNKNOWN_ARTIST
    IN  IF possible_urls = <<>> THEN <<>>
        ELSE << Track(Prefix(title, TITLE_MAX), Prefix(clean_text(author), ARTIST_MAX),
                      possible_urls[1].href) >>

\* The feed entries of the model.
SONG_X == <<"S","o","n","g"," ","X">>

ARTIST_A == <<"A","r","t","i","s","t"," ","A">>

Mp3(href) == <<Link(href, TRUE, FALSE, FALSE)>>

DiscEntries ==
    { [title |-> SONG_X, author |-> ARTIST_A, links |-> Mp3("archive.org/x.mp3")],
      \* the same song again under another URL, spelled differently
      [title |-> <<" ","s","o","n","g"," "," "," ","x">>, creator |-> <<"<","b",">","a","r","t","i","s","t"," ","a","<","/","b",">">>,
       links |-> <<Link("archive.org/x", FALSE, FALSE, FALSE),
                   Link("archive.org/x-copy", FALSE, TRUE, FALSE)>>],
      \* another song under the URL of the first
      [title |-> <<"S","o","n","g"," ","Z">>, author |-> ARTIST_A, links |-> Mp3("archive.org/x.mp3")],
      [title |-> <<"S","o","n","g"," ","Y">>, artist |-> <<"A","r","t","i","s","t"," ","B">>,
       links |-> <<>>, enclosures |-> <<[href |-> "archive.org/y.mp3", mp3 |-> TRUE,
                                         type_audio |-> FALSE]>>],
      \* an entry without an audio URL
      [title |-> <<"S","o","n","g"," ","W">>, links |-> <<Link("archive.org/w.html", FALSE, FALSE, FALSE),
                                        Link("", FALSE, TRUE, TRUE)>>],
      \* a feed copy of the first emergency track
      [author |-> SOUNDHELIX, title |-> <<"S","o","u","n","d","H","e","l","i","x"," ","S","o","n","g"," ","1">>,
       links |-> <<Link("archive.org/helix", FALSE, FALSE, TRUE)>>] }

\* A body with POOL_BREAK entries of different URLs.
BigUrls ==
    << "archive.org/01.mp3", "archive.org/02.mp3", "archive.org/03.mp3",
       "archive.org/04.mp3", "archive.org/05.mp3", "archive.org/06.mp3",
       "archive.org/07.mp3", "archive.org/08.mp3", "archive.org/09.mp3",
       "archive.org/10.mp3", "archive.org/11.mp3", "archive.org/12.mp3" >>

BigBody == [i \in 1..Len(BigUrls) |-> [title |-> Word(i), links |-> Mp3(BigUrls[i])]]

\* What a music feed can answer with when its request succeeds (no entry for
\* an empty or unparsable body).
FeedBodies == SeqsUpTo(DiscEntries, MaxFeedEntries) \cup {BigBody}

\* extract_track of every entry of the model, computed once.
AllEntries == DiscEntries \cup {BigBody[i] : i \in 1..Len(BigBody)}

Extracted == [entry \in AllEntries |-> extract_track(entry)]

(***************************************************************************)
(* fetch_tracks_from_feeds: the body of the loop over parsed.entries.      *)
(***************************************************************************)
RECURSIVE AddEntries(_, _, _)
AddEntries(pool, seen, entries) ==
    IF entries = <<>> THEN [pool |-> pool, seen |-> seen]
    ELSE LET track == Extracted[Head(entries)]
         IN  IF track = <<>> THEN AddEntries(pool, seen, Tail(entries))
             ELSE IF track[1].audio_url \in seen THEN AddEntries(pool, seen, Tail(entries))
             ELSE AddEntries(Append(pool, track[1]), seen \cup {track[1].audio_url},
                             Tail(entries))

\* The audio URLs a body carries.
AudioUrls(body) ==
    {Extracted[body[i]][1].audio_url :
        i \in {k \in 1..Len(body) : Extracted[body[k]] # <<>>}}

\* The feeds and min_required of each stage's fetch_tracks_from_feeds call.
StageFeeds(stage, genre) ==
    CASE stage = 1 -> MusicFeedsByGenre(genre)
      [] stage = 2 -> GENERAL_MUSIC_FEEDS
      [] stage = 3 -> POPULAR_MUSIC_FEEDS
      [] stage = 4 -> MusicFeedsByGenre(genre) \o GENERAL_MUSIC_FEEDS \o POPULAR_MUSIC_FEEDS

MinRequired(stage) == IF stage = 4 THEN 1 ELSE REQUIRED

\* if len(pool) >= max(12, min_required): break
PoolFull(pool, min_required) == Len(pool) >= Max({POOL_BREAK, min_required})

\* if len(tracks) >= 2: return tracks[:2], stage_id
StageSatisfied_Mutant(tracks_len) == tracks_len >= 1

StageSatisfied(tracks_len) == tracks_len >= REQUIRED

\* A slice that keeps one track only.
ShuffledPrefix_Mutant(pool, n) ==
    {<<pool[i]>> : i \in 1..Len(pool)}

\* random.shuffle(pool), then the caller's tracks[:n]: any n different
\* elements of the pool in any order, fewer when the pool is shorter (n <= 2).
ShuffledPrefix(pool, n) ==
    IF pool = <<>> THEN {<<>>}
    ELSE IF n = 1 \/ Len(pool) = 1 THEN {<<pool[i]>> : i \in 1..Len(pool)}
    ELSE {<<pool[p[1]], pool[p[2]]>> :
             p \in {q \in (1..Len(pool)) \X (1..Len(pool)) : q[1] # q[2]}}

InitDiscovery ==
    /\ QuoteIdle
    /\ BotIdle
    /\ UserbotIdle
    /\ d_genre \in {GENRES[i] : i \in 1..Len(GENRES)}
    /\ d_pc = "fetch"
    /\ d_stage = 1
    /\ d_todo = StageFeeds(1, d_genre)
    /\ d_pool = <<>>
    /\ d_seen = {}
    /\ d_tracks = <<>>
    /\ d_stage_used = 0
    /\ d_requested = <<>>
    /\ d_got = {}
    /\ d_failed = 0
    /\ d_stage_len = [s \in 1..4 |-> -1]
    /\ d_emergency = 0

Request == <<d_stage, Head(d_todo)>>

\* The request of a feed raises inside the try (timeout, HTTP status): it is
\* logged and the loop goes on with the next feed.
FeedFails_Mutant ==
    /\ d_pc = "fetch"
    /\ d_todo # <<>>
    /\ d_requested' = Append(d_requested, Request)
    /\ d_failed' = d_failed + 1
    /\ d_pc' = "raised"
    /\ UNCHANGED <<d_genre, d_stage, d_todo, d_pool, d_seen, d_tracks, d_stage_used,
                   d_got, d_stage_len, d_emergency, d_others>>

FeedFails ==
    /\ d_pc = "fetch"
    /\ d_todo # <<>>
    /\ d_requested' = Append(d_requested, Request)
    /\ d_todo' = Tail(d_todo)
    /\ d_failed' = d_failed + 1
    /\ UNCHANGED <<d_genre, d_pc, d_stage, d_pool, d_seen, d_tracks, d_stage_used,
                   d_got, d_stage_len, d_emergency, d_others>>

\* A feed answers: its entries are added to the pool; a full pool ends the loop.
FeedAnswers ==
    /\ d_pc = "fetch"
    /\ d_todo # <<>>
    /\ \E body \in FeedBodies :
          LET r == AddEntries(d_pool, d_seen, body)
          IN  /\ d_pool' = r.pool
              /\ d_seen' = r.seen
              /\ d_got' = d_got \cup AudioUrls(body)
              /\ d_todo' = IF PoolFull(r.pool, MinRequired(d_stage)) THEN <<>>
                           ELSE Tail(d_todo)
    /\ d_requested' = Append(d_requested, Request)
    /\ UNCHANGED <<d_genre, d_pc, d_stage, d_tracks, d_stage_used, d_stage_len,
                   d_failed, d_emergency, d_others>>

\* Stage 1, 2 or 3 returned at least 2 tracks: return tracks[:2], stage_id.
StageEnough ==
    /\ d_pc = "fetch"
    /\ d_todo = <<>>
    /\ d_stage <= 3
    /\ StageSatisfied(Len(d_pool))
    /\ d_tracks' \in ShuffledPrefix(d_pool, REQUIRED)
    /\ d_stage_used' = d_stage
    /\ d_stage_len' = [d_stage_len EXCEPT ![d_stage] = Len(d_pool)]
    /\ d_pc' = "done"
    /\ UNCHANGED <<d_genre, d_stage, d_todo, d_pool, d_seen, d_requested, d_got,
                   d_failed, d_emergency, d_others>>

\* Stage 1, 2 or 3 returned fewer: the next stage starts with an empty pool.
StageShort ==
    /\ d_pc = "fetch"
    /\ d_todo = <<>>
    /\ d_stage <= 3
    /\ ~StageSatisfied(Len(d_pool))
    /\ d_stage_len' = [d_stage_len EXCEPT ![d_stage] = Len(d_pool)]
    /\ d_stage' = d_stage + 1
    /\ d_todo' = StageFeeds(d_stage + 1, d_genre)
    /\ d_pool' = <<>>
    /\ d_seen' = {}
    /\ d_got' = {}
    /\ d_failed' = 0
    /\ UNCHANGED <<d_genre, d_pc, d_tracks, d_stage_used, d_requested, d_emergency,
                   d_others>>

\* Stage 4 returned tracks: chosen = stage4_tracks[:1] plus
\* random.choice(EMERGENCY_TRACKS).
BestEffortOne ==
    /\ d_pc = "fetch"
    /\ d_todo = <<>>
    /\ d_stage = 4
    /\ d_pool # <<>>
    /\ \E chosen \in ShuffledPrefix(d_pool, 1), e \in 1..Len(EMERGENCY_TRACKS) :
          d_tracks' = Append(chosen, EMERGENCY_TRACKS[e])
    /\ d_emergency' = 1
    /\ d_stage_used' = 4
    /\ d_stage_len' = [d_stage_len EXCEPT ![4] = Len(d_pool)]
    /\ d_pc' = "done"
    /\ UNCHANGED <<d_genre, d_stage, d_todo, d_pool, d_seen, d_requested, d_got,
                   d_failed, d_others>>

\* Stage 4 returned nothing: return EMERGENCY_TRACKS[:2], 4.
BestEffortNone ==
    /\ d_pc = "fetch"
    /\ d_todo = <<>>
    /\ d_stage = 4
    /\ d_pool = <<>>
    /\ d_tracks' = Prefix(EMERGENCY_TRACKS, REQUIRED)
    /\ d_emergency' = 2
    /\ d_stage_used' = 4
    /\ d_stage_len' = [d_stage_len EXCEPT ![4] = 0]
    /\ d_pc' = "done"
    /\ UNCHANGED <<d_genre, d_stage, d_todo, d_pool, d_seen, d_requested, d_got,
                   d_failed, d_others>>

NextDiscovery ==
    \/ FeedFails
    \/ FeedAnswers
    \/ StageEnough
    \/ StageShort
    \/ BestEffortOne
    \/ BestEffortNone

SpecDiscovery == InitDiscovery /\ [][NextDiscovery]_vars

(***************************************************************************)
(* Properties of the discovery.                                            *)
(***************************************************************************)
\* The identity key of a track: title and artist, case-insensitive and
\* whitespace-collapsed, joined by "::".
UPPER == <<"A","B","C","D","E","F","G","H","I","J","K","L","M",
           "N","O","P","Q","R","S","T","U","V","W","X","Y","Z">>

LOWER == <<"a","b","c","d","e","f","g","h","i","j","k","l","m",
           "n","o","p","q","r","s","t","u","v","w","x","y","z">>

LowerChar(c) ==
    IF \E k \in 1..Len(UPPER) : UPPER[k] = c
    THEN LOWER[CHOOSE k \in 1..Len(UPPER) : UPPER[k] = c]
    ELSE c

Normalize(s) ==
    LET t == Strip(CollapseSpaces(s)) IN [i \in 1..Len(t) |-> LowerChar(t[i])]

IdentityKey(track) == Normalize(track.title) \o <<":", ":">> \o Normalize(track.artist)

PoolUrls == {d_pool[i].audio_url : i \in 1..Len(d_pool)}

RequestedIn(stage) ==
    {d_requested[i][2] : i \in {k \in 1..Len(d_requested) : d_requested[k][1] = stage}}

FeedsOf(stage) == {StageFeeds(stage, d_genre)[i] : i \in 1..Len(StageFeeds(stage, d_genre))}

(***************************************************************************)
(* C3: fetch_tracks_with_fallback returns at most 2 tracks, and no two     *)
(* returned tracks share the same normalized identity key.                 *)
(***************************************************************************)
C3_AtMostTwoDistinctIdentities ==
    d_pc = "done" =>
        /\ Len(d_tracks) <= REQUIRED
        /\ \A i, j \in 1..Len(d_tracks) :
              i # j => IdentityKey(d_tracks[i]) # IdentityKey(d_tracks[j])

(***************************************************************************)
(* C5: the stages run in the order 1, 2, 3, 4; the first stage whose       *)
(* result reaches 2 tracks ends the discovery with its own id, and no feed *)
(* of a later stage is requested.  The result counted is the one           *)
(* fetch_tracks_from_feeds returns, deduplicated by audio URL.             *)
(***************************************************************************)
C5_StagesInOrderFirstEnoughEnds ==
    /\ \A i, j \in 1..Len(d_requested) : i < j => d_requested[i][1] <= d_requested[j][1]
    /\ \A i \in 1..Len(d_requested) : d_requested[i][1] <= d_stage
    /\ d_pc = "done" =>
          /\ d_stage_used \in 1..4
          /\ d_stage_used = d_stage
          /\ \A s \in 1..4 :
                /\ s < d_stage_used => d_stage_len[s] \in 0..(REQUIRED - 1) /\ RequestedIn(s) # {}
                /\ s > d_stage_used => d_stage_len[s] = -1 /\ RequestedIn(s) = {}
          /\ d_stage_used <= 3 => d_stage_len[d_stage_used] >= REQUIRED

\* Stage 1 fell short, stage 2 reached the quota: two requests, stage id 2.
C5_Witness ==
    /\ d_pc = "done"
    /\ d_stage_used = 2
    /\ d_stage_len[1] = 1
    /\ Len(d_requested) = 2

(***************************************************************************)
(* C6: if stages 1 and 2 yield no track and stage 3 yields at least 2,     *)
(* the result is exactly 2 tracks, both from the stage-3 result, with      *)
(* stage id 3 and no emergency track.                                      *)
(***************************************************************************)
C6_PopularStageFillsQuota ==
    (d_pc = "done" /\ d_stage_len[1] = 0 /\ d_stage_len[2] = 0 /\ d_stage_len[3] >= REQUIRED) =>
        /\ Len(d_tracks) = 2
        /\ d_tracks[1] # d_tracks[2]
        /\ \A i \in 1..Len(d_tracks) :
              /\ \E k \in 1..Len(d_pool) : d_pool[k] = d_tracks[i]
              /\ d_tracks[i].audio_url \in d_got
        /\ d_stage = 3
        /\ d_stage_used = 3
        /\ d_emergency = 0

C6_Witness ==
    /\ d_pc = "done"
    /\ d_stage_len[1] = 0
    /\ d_stage_len[2] = 0
    /\ d_stage_len[3] > REQUIRED

(***************************************************************************)
(* C7: a failing feed never aborts the discovery: fetch_tracks_from_feeds  *)
(* goes on to the other feeds of its list and returns the tracks of the    *)
(* feeds that answered, and fetch_tracks_with_fallback returns a non-empty *)
(* list.                                                                   *)
(***************************************************************************)
C7_FeedFailuresNeverAbort ==
    /\ d_pc # "raised"
    /\ d_pc \in {"fetch", "done"} =>
          /\ PoolUrls = d_got
          /\ Cardinality(PoolUrls) = Len(d_pool)
          /\ d_todo = <<>> =>
                \/ RequestedIn(d_stage) = FeedsOf(d_stage)
                \/ PoolFull(d_pool, MinRequired(d_stage))
    /\ d_pc = "done" => d_tracks # <<>>

\* In the last call one feed failed, another answered, and its track is returned.
C7_Witness ==
    /\ d_pc = "done"
    /\ d_failed > 0
    /\ d_pool # <<>>
    /\ \E k \in 1..Len(d_pool) : d_pool[k] = d_tracks[1]

(***************************************************************************)
(* The handlers of the admin chat (one admin, one chat) and the files      *)
(* under temp_root.  Handlers run as concurrent tasks of one event loop: a *)
(* step of the model is the code between two awaits that let another       *)
(* handler run.  Telegram sends are taken to succeed, send_post_preview    *)
(* and publish_post apart.  The quote of a post is left out of the         *)
(* payload: fetch_quote writes no file and touches no shared state.        *)
(***************************************************************************)
\* What fetch_tracks_with_fallback can return, given the tracks the feeds
\* can yield: two feed tracks of different URLs and stage 1, 2 or 3; a feed
\* track, an emergency track and stage 4; the two emergency tracks and stage 4.
\* (Every return of SpecDiscovery lies in this set, taken over its pool.)
FallbackReturns(feed_tracks) ==
    {[tracks |-> <<ab[1], ab[2]>>, stage_used |-> s] :
        ab \in {p \in feed_tracks \X feed_tracks : p[1].audio_url # p[2].audio_url},
        s \in 1..3}
    \cup {[tracks |-> <<a, EMERGENCY_TRACKS[e]>>, stage_used |-> 4] :
            a \in feed_tracks, e \in 1..Len(EMERGENCY_TRACKS)}
    \cup {[tracks |-> Prefix(EMERGENCY_TRACKS, REQUIRED), stage_used |-> 4]}

\* The feed tracks of the handlers' model.
TRACK_X == Track(SONG_X, ARTIST_A, "archive.org/x.mp3")

TRACK_Y == Track(<<"S","o","n","g"," ","Y">>, <<"A","r","t","i","s","t"," ","B">>, "archive.org/y.mp3")

\* The returns a single run is checked with, and those of concurrent runs.
AcquireReturns == FallbackReturns({TRACK_X, TRACK_Y})

ConcurrentReturns == {r \in FallbackReturns({TRACK_X}) : r.tracks[2] = EMERGENCY_TRACKS[1]}

\* How the download of one candidate can end: the file is written; the
\* request ends with an HTTP error status (raise_for_status); the payload
\* is empty.
DownloadOutcomes == {"ok", "http_error", "empty"}

\* The ends of the downloads of one download_tracks call, candidate by
\* candidate: every combination for a single run; for concurrent runs, all
\* succeed or all end with an HTTP error.
AcquireEnds == [1..REQUIRED -> DownloadOutcomes]

ConcurrentEnds == {[i \in 1..REQUIRED |-> "ok"], [i \in 1..REQUIRED |-> "http_error"]}

IsEmergency(track) == \E e \in 1..Len(EMERGENCY_TRACKS) : EMERGENCY_TRACKS[e] = track

\* A payload of pending_posts.
Payload(image_path, tracks, track_files) ==
    [image_path |-> image_path, tracks |-> tracks, track_files |-> track_files]

PayloadFiles(payload) ==
    {payload.image_path} \cup {payload.track_files[i] : i \in 1..Len(payload.track_files)}

\* send_post_preview and publish_post: the title and performer each audio
\* file is sent with: payload["tracks"][idx] if idx < len(payload["tracks"])
\* else EMERGENCY_TRACKS[idx].
SentLabels(payload) ==
    [idx \in 1..Len(payload.track_files) |->
        LET track == IF idx <= Len(payload.tracks) THEN payload.tracks[idx]
                     ELSE EMERGENCY_TRACKS[idx]
        IN  [title |-> track.title, performer |-> track.artist]]

\* The names held by a payload list (<<>> or <<payload>>).
HeldFiles(payloads) == UNION {PayloadFiles(payloads[i]) : i \in 1..Len(payloads)}

\* self.temp_root: the one directory made in __init__; every path is
\* self.temp_root / <name>, so the directory of every file is temp_root.
TEMP_ROOT == "music_channel_bot"

Parent(name) == TEMP_ROOT

\* uuid.uuid4().hex: a name no file has and nothing refers to.  The model
\* takes the least such name.
NamesInUse ==
    temp_files \cup HeldFiles(pending_posts)
    \cup UNION {HeldFiles(pub[p].payload) : p \in 1..MaxPublishes}
    \cup UNION {acq[k].written \cup {acq[k].image_path} : k \in 1..MaxAcquisitions}

FreshName(used) == Min((1..(Cardinality(used) + 1)) \ used)

(***************************************************************************)
(* download_tracks.  A download state holds the paths collected, the       *)
(* files on disk and the names in use.                                     *)
(***************************************************************************)
\* The file of a candidate is written under a fresh name and kept.
Keep(dl, track) ==
    LET file_path == FreshName(dl.used)
    IN  [dl EXCEPT !.paths = Append(@, file_path), !.sources = Append(@, track),
                   !.files = @ \cup {file_path}, !.written = @ \cup {file_path},
                   !.used = @ \cup {file_path}]

\* The loop over the discovered tracks: a failed candidate (HTTP status,
\* empty file) is logged, its file removed if it exists, and the loop goes on.
DownloadCandidate(dl, track, outcome) ==
    IF outcome = "ok" THEN Keep(dl, track) ELSE dl

\* A padding loop that skips the emergency track whose download fails.
DownloadFallback_Mutant(dl, track, outcome) ==
    IF outcome = "ok" THEN Keep(dl, track) ELSE dl

\* The padding loop over EMERGENCY_TRACKS[:needed]: no try, no size check.
DownloadFallback(dl, track, outcome) ==
    IF dl.raised THEN dl
    ELSE IF outcome = "http_error" THEN [dl EXCEPT !.raised = TRUE]
    ELSE [Keep(dl, track) EXCEPT !.accepted_empty = @ \/ outcome = "empty"]

RECURSIVE DownloadAll(_, _, _, _)
DownloadAll(dl, tracks, outcomes, fallback) ==
    IF tracks = <<>> THEN dl
    ELSE DownloadAll(IF fallback THEN DownloadFallback(dl, Head(tracks), Head(outcomes))
                     ELSE DownloadCandidate(dl, Head(tracks), Head(outcomes)),
                     Tail(tracks), Tail(outcomes), fallback)

\* download_tracks(tracks), given how each download ends: outcomes for the
\* discovered tracks, pad_outcomes for the emergency tracks of the padding.
download_tracks(files, used, tracks, outcomes, pad_outcomes) ==
    LET dl0 == [paths |-> <<>>, sources |-> <<>>, files |-> files, used |-> used,
                written |-> {}, raised |-> FALSE, accepted_empty |-> FALSE]
        dl1 == DownloadAll(dl0, tracks, outcomes, FALSE)
        needed == REQUIRED - Len(dl1.paths)
        dl2 == IF Len(dl1.paths) < REQUIRED
               THEN DownloadAll(dl1, Prefix(EMERGENCY_TRACKS, needed),
                                Prefix(pad_outcomes, needed), TRUE)
               ELSE dl1
    IN  [dl2 EXCEPT !.paths = Prefix(@, REQUIRED), !.sources = Prefix(@, REQUIRED)]

(***************************************************************************)
(* cleanup_post_payload                                                    *)
(***************************************************************************)
\* A removal that raises when the file is missing (path.unlink()).
RemoveIfExists_Mutant(cl, path) ==
    IF path \in cl.files THEN [cl EXCEPT !.files = @ \ {path}]
    ELSE [cl EXCEPT !.raised = TRUE]

\* if path.exists(): path.unlink(missing_ok=True)
RemoveIfExists(cl, path) ==
    IF path \in cl.files THEN [cl EXCEPT !.files = @ \ {path}] ELSE cl

RECURSIVE RemoveAll(_, _)
RemoveAll(cl, paths) ==
    IF paths = <<>> THEN cl ELSE RemoveAll(RemoveIfExists(cl, Head(paths)), Tail(paths))

\* The files left (and whether a call raised) after cleanup_post_payload(payload).
cleanup_post_payload(files, payload) ==
    RemoveAll([files |-> files, raised |-> FALSE],
              <<payload.image_path>> \o payload.track_files)

(***************************************************************************)
(* The handlers.                                                           *)
(***************************************************************************)
InitBot ==
    /\ QuoteIdle
    /\ DiscoveryIdle
    /\ BotIdle
    /\ UserbotIdle

\* start_command: state.clear().
StartCommand ==
    /\ fsm_state' = "none"
    /\ UNCHANGED <<pending_posts, temp_files, acq, started, pub, b_others>>

\* new_post_action: state.set_state(choosing_genre).
NewPostAction ==
    /\ fsm_state' = "choosing_genre"
    /\ UNCHANGED <<pending_posts, temp_files, acq, started, pub, b_others>>

\* poll_action: state.set_state(choosing_poll).
PollAction ==
    /\ fsm_state' = "choosing_poll"
    /\ UNCHANGED <<pending_posts, temp_files, acq, started, pub, b_others>>

\* cancel_action: state.clear(); pending_posts.pop(chat_id, None);
\* pending_polls.pop(chat_id, None).
CancelAction ==
    /\ fsm_state' = "none"
    /\ pending_posts' = <<>>
    /\ pending_polls' = <<>>
    /\ acq' = [k \in 1..MaxAcquisitions |->
                 IF acq[k].pc \in {"idle", "returned"} THEN acq[k]
                 ELSE [acq[k] EXCEPT !.abandoned = TRUE]]
    /\ UNCHANGED <<temp_files, started, pub, qvars, dvars, uvars>>
    /\ UNCHANGED <<poll_run, poll_started, poll_pub, previews, channel_polls>>

\* genre_selected is dispatched (the filter reads the FSM state) and awaits
\* its first message.answer.  At most `runs` runs start in a behaviour.
GenreSelected(runs) ==
    /\ fsm_state = "choosing_genre"
    /\ started < runs
    /\ started' = started + 1
    /\ acq' = [acq EXCEPT ![started + 1].pc = "clear"]
    /\ UNCHANGED <<fsm_state, pending_posts, temp_files, pub, b_others>>

\* state.clear(), then fetch_quote.
GenreClear(k) ==
    /\ acq[k].pc = "clear"
    /\ fsm_state' = "none"
    /\ acq' = [acq EXCEPT ![k].pc = "image"]
    /\ UNCHANGED <<pending_posts, temp_files, started, pub, b_others>>

\* A run that returned.
Returned == [IdleAcquisition EXCEPT !.pc = "returned"]

\* A call of the try block raises: the run is in the except branch, where it
\* logs the error and awaits the message.answer that reports it.
Failed(run, cause) == [run EXCEPT !.pc = "except", !.cause = cause]

\* fetch_unsplash_image writes the image under a fresh name.
FetchImage(k) ==
    /\ acq[k].pc = "image"
    /\ LET image_path == FreshName(NamesInUse)
       IN  /\ temp_files' = temp_files \cup {image_path}
           /\ acq' = [acq EXCEPT ![k].pc = "tracks", ![k].image_path = image_path,
                                 ![k].written = @ \cup {image_path}]
    /\ UNCHANGED <<fsm_state, pending_posts, started, pub, b_others>>

\* fetch_unsplash_image raises (HTTP status, no image URL) before it writes.
FetchImageFails(k) ==
    /\ acq[k].pc = "image"
    /\ acq' = [acq EXCEPT ![k] = Failed(acq[k], "image")]
    /\ UNCHANGED <<fsm_state, pending_posts, temp_files, started, pub, b_others>>

\* if stage_used > 1: the fallback notice is sent.
FallbackNotice(stage_used) == stage_used > 1

\* fetch_tracks_with_fallback returns one of `returns`.
FetchTracks(k, returns) ==
    /\ acq[k].pc = "tracks"
    /\ \E r \in returns :
          acq' = [acq EXCEPT ![k].pc = "download", ![k].tracks = r.tracks,
                             ![k].stage_used = r.stage_used,
                             ![k].notice = FallbackNotice(r.stage_used)]
    /\ UNCHANGED <<fsm_state, pending_posts, temp_files, started, pub, b_others>>

\* download_tracks returns and the payload is stored in pending_posts.
DownloadTracks(k, ends) ==
    /\ acq[k].pc = "download"
    /\ \E outcomes \in ends, pad_outcomes \in ends :
          LET dl == download_tracks(temp_files, NamesInUse, acq[k].tracks, outcomes,
                                    pad_outcomes)
          IN  /\ ~dl.raised
              /\ temp_files' = dl.files
              /\ pending_posts' = <<Payload(acq[k].image_path, acq[k].tracks, dl.paths)>>
              /\ acq' = [acq EXCEPT ![k].pc = "preview",
                                    ![k].written = @ \cup dl.written,
                                    ![k].sources = dl.sources,
                                    ![k].accepted_empty = dl.accepted_empty]
    /\ UNCHANGED <<fsm_state, started, pub, b_others>>

\* download_tracks raises: the download of an emergency track failed.
DownloadTracksFails(k, ends) ==
    /\ acq[k].pc = "download"
    /\ \E outcomes \in ends, pad_outcomes \in ends :
          LET dl == download_tracks(temp_files, NamesInUse, acq[k].tracks, outcomes,
                                    pad_outcomes)
          IN  /\ dl.raised
              /\ temp_files' = dl.files
              /\ acq' = [acq EXCEPT ![k] =
                            Failed([acq[k] EXCEPT !.written = @ \cup dl.written,
                                                  !.accepted_empty = dl.accepted_empty],
                                   "download")]
    /\ UNCHANGED <<fsm_state, pending_posts, started, pub, b_others>>

\* send_post_preview and the closing message.answer succeed.
Preview(k) ==
    /\ acq[k].pc = "preview"
    /\ acq' = [acq EXCEPT ![k] = Returned]
    /\ UNCHANGED <<fsm_state, pending_posts, temp_files, started, pub, b_others>>

\* send_post_preview raises: the except branch reports the error.
PreviewFails(k) ==
    /\ acq[k].pc = "preview"
    /\ acq' = [acq EXCEPT ![k] = Failed(acq[k], "preview")]
    /\ UNCHANGED <<fsm_state, pending_posts, temp_files, started, pub, b_others>>

\* The except branch has reported the failure; the run returns.
Reported(k) ==
    /\ acq[k].pc = "except"
    /\ acq' = [acq EXCEPT ![k] = Returned]
    /\ UNCHANGED <<fsm_state, pending_posts, temp_files, started, pub, b_others>>

\* handle_post_publish reads the payload and awaits publish_post.  (Without
\* a payload it answers "no prepared post" and returns.)
PostPublish(p) ==
    /\ pub[p].pc = "idle"
    /\ \A q \in 1..(p - 1) : pub[q].pc # "idle"
    /\ pending_posts # <<>>
    /\ pub' = [pub EXCEPT ![p] = [pc |-> "publishing", payload |-> pending_posts]]
    /\ UNCHANGED <<fsm_state, pending_posts, temp_files, acq, started, b_others>>

\* publish_post returned or raised; finally: cleanup_post_payload(payload),
\* pending_posts.pop(chat_id, None).
PostPublishFinally(p) ==
    /\ pub[p].pc = "publishing"
    /\ temp_files' = cleanup_post_payload(temp_files, pub[p].payload[1]).files
    /\ pending_posts' = <<>>
    /\ pub' = [pub EXCEPT ![p] = IdlePublish]
    /\ UNCHANGED <<fsm_state, acq, started, b_others>>

\* handle_post_cancel: payload = pending_posts.pop(chat_id, None); if
\* payload: cleanup_post_payload(payload).  (Without a payload it only answers.)
PostCancel ==
    /\ pending_posts # <<>>
    /\ temp_files' = cleanup_post_payload(temp_files, pending_posts[1]).files
    /\ pending_posts' = <<>>
    /\ UNCHANGED <<fsm_state, acq, started, pub, b_others>>

\* The admin chat: every handler, up to MaxAcquisitions genre_selected runs
\* and MaxPublishes publish handlers in flight.
Next ==
    \/ StartCommand
    \/ NewPostAction
    \/ PollAction
    \/ CancelAction
    \/ GenreSelected(MaxAcquisitions)
    \/ \E k \in 1..MaxAcquisitions : GenreClear(k)
    \/ \E k \in 1..MaxAcquisitions : FetchImage(k)
    \/ \E k \in 1..MaxAcquisitions : FetchImageFails(k)
    \/ \E k \in 1..MaxAcquisitions : FetchTracks(k, ConcurrentReturns)
    \/ \E k \in 1..MaxAcquisitions : DownloadTracks(k, ConcurrentEnds)
    \/ \E k \in 1..MaxAcquisitions : DownloadTracksFails(k, ConcurrentEnds)
    \/ \E k \in 1..MaxAcquisitions : Preview(k)
    \/ \E k \in 1..MaxAcquisitions : PreviewFails(k)
    \/ \E k \in 1..MaxAcquisitions : Reported(k)
    \/ \E p \in 1..MaxPublishes : PostPublish(p)
    \/ \E p \in 1..MaxPublishes : PostPublishFinally(p)
    \/ PostCancel

Spec == InitBot /\ [][Next]_vars

\* One post: a single genre_selected run, with every return of the discovery
\* and every end of a download, and the callbacks and commands of the admin.
NextPost ==
    \/ StartCommand
    \/ NewPostAction
    \/ CancelAction
    \/ GenreSelected(1)
    \/ GenreClear(1)
    \/ FetchImage(1)
    \/ FetchImageFails(1)
    \/ FetchTracks(1, AcquireReturns)
    \/ DownloadTracks(1, AcquireEnds)
    \/ DownloadTracksFails(1, AcquireEnds)
    \/ Preview(1)
    \/ PreviewFails(1)
    \/ Reported(1)
    \/ \E p \in 1..MaxPublishes : PostPublish(p)
    \/ \E p \in 1..MaxPublishes : PostPublishFinally(p)
    \/ PostCancel

SpecPost == InitBot /\ [][NextPost]_vars

(***************************************************************************)
(* The polls.                                                              *)
(***************************************************************************)
\* list(POLL_TEMPLATES.keys())
POLL_KEYS == {"poll 1", "poll 2", "poll 3"}

\* The entry poll_selected stores: the question and options of the template
\* (by its key) and the message id of the preview poll.
PollPayload(key, message_id) == [template |-> key, preview_poll_message_id |-> message_id]

\* A take of the pending entry that leaves it in place (pending_polls.get).
PopPending_Mutant(pending) == pending

\* What pending_polls.pop(chat_id, None) leaves for the chat.
PopPending(pending) == <<>>

\* poll_selected is dispatched (the filter reads the FSM state); state.clear()
\* on the memory storage does not suspend; the run awaits the preview send_poll.
PollSelected ==
    /\ fsm_state = "choosing_poll"
    /\ poll_started < MaxPollRuns
    /\ \E key \in POLL_KEYS :
          poll_run' = [poll_run EXCEPT ![poll_started + 1] = [pc |-> "preview", key |-> key]]
    /\ poll_started' = poll_started + 1
    /\ fsm_state' = "none"
    /\ UNCHANGED <<pending_polls, poll_pub, previews, channel_polls, p_others>>

\* The preview send_poll returned: the entry is stored under the message id
\* of the preview (a new message of the chat), and the run answers and returns.
PollPreviewSent(k) ==
    /\ poll_run[k].pc = "preview"
    /\ previews' = previews \cup {k}
    /\ pending_polls' = <<PollPayload(poll_run[k].key, k)>>
    /\ poll_run' = [poll_run EXCEPT ![k].pc = "returned"]
    /\ UNCHANGED <<fsm_state, poll_started, poll_pub, channel_polls, p_others>>

\* The preview send_poll raised: the except branch answers, nothing is stored.
PollPreviewFails(k) ==
    /\ poll_run[k].pc = "preview"
    /\ poll_run' = [poll_run EXCEPT ![k].pc = "returned"]
    /\ UNCHANGED <<fsm_state, pending_polls, poll_started, poll_pub, previews,
                   channel_polls, p_others>>

\* handle_poll_publish takes the entry and calls send_poll for the channel.
\* (Without an entry it answers "no prepared poll" and returns.)
PollPublish(p) ==
    /\ poll_pub[p].pc = "idle"
    /\ \A q \in 1..(p - 1) : poll_pub[q].pc # "idle"
    /\ pending_polls # <<>>
    /\ poll_pub' = [poll_pub EXCEPT ![p] = [pc |-> "sending", payload |-> pending_polls]]
    /\ pending_polls' = PopPending(pending_polls)
    /\ channel_polls' = Append(channel_polls, pending_polls[1].preview_poll_message_id)
    /\ UNCHANGED <<fsm_state, poll_run, poll_started, previews, p_others>>

\* The channel send_poll returned or raised; the handler answers and returns.
PollPublishEnds(p) ==
    /\ poll_pub[p].pc = "sending"
    /\ poll_pub' = [poll_pub EXCEPT ![p] = IdlePollPublish]
    /\ UNCHANGED <<fsm_state, pending_polls, poll_run, poll_started, previews,
                   channel_polls, p_others>>

\* handle_poll_cancel takes the entry and deletes the preview message; a
\* TelegramBadRequest of delete_message is passed over.
PollCancel ==
    /\ pending_polls # <<>>
    /\ pending_polls' = PopPending(pending_polls)
    /\ \E deleted \in BOOLEAN :
          previews' = IF deleted THEN previews \ {pending_polls[1].preview_poll_message_id}
                      ELSE previews
    /\ UNCHANGED <<fsm_state, poll_run, poll_started, poll_pub, channel_polls, p_others>>

\* The admin chat and its polls.
NextPoll ==
    \/ StartCommand
    \/ NewPostAction
    \/ PollAction
    \/ CancelAction
    \/ PollSelected
    \/ \E k \in 1..MaxPollRuns : PollPreviewSent(k)
    \/ \E k \in 1..MaxPollRuns : PollPreviewFails(k)
    \/ \E p \in 1..MaxPollPublishes : PollPublish(p)
    \/ \E p \in 1..MaxPollPublishes : PollPublishEnds(p)
    \/ PollCancel

SpecPoll == InitBot /\ [][NextPoll]_vars

(***************************************************************************)
(* TgSoundUserbot (src/userbot.py).  Titles and performers are left out: a *)
(* downloaded track is known by its path, destination_dir/<id>.mp3.        *)
(***************************************************************************)
\* the file_unique_id values of the audio TgSoundBot answers with
FILE_IDS == {"a", "b"}

\* A message of the chat: its date and the file_unique_id of its audio
\* ("": no audio, no audio document, or an audio without the attribute).
ChatMessage(date, file_unique_id) == [date |-> date, file_unique_id |-> file_unique_id]

\* get_chat_history(bot_chat.id, limit=40)
HISTORY_LIMIT == 40

Reverse(s) == [i \in 1..Len(s) |-> s[Len(s) + 1 - i]]

\* The messages the iteration yields: the newest first, at most 40.
get_chat_history(chat) == Prefix(Reverse(chat), HISTORY_LIMIT)

\* DownloadedTrack(title, performer, file_path=saved_path)
DownloadedTrack(file_unique_id) == [file_path |-> file_unique_id]

\* A test that passes over the messages without an id only.
Skips_Mutant(file_unique_id, seen_file_ids) == file_unique_id = ""

\* if not audio: continue; if not file_unique_id or file_unique_id in
\* seen_file_ids: continue
Skips(file_unique_id, seen_file_ids) ==
    file_unique_id = "" \/ file_unique_id \in seen_file_ids

\* A call that returned, and one that ended with an exception.
ReturnedCall == [IdleCall EXCEPT !.pc = "returned"]
RaisedCall == [IdleCall EXCEPT !.pc = "raised"]

\* Where a call of the method `op` goes on once start() has returned.
AfterStart(op) == IF op = "search" THEN "lock" ELSE "returned"

\* start(): if not self._started: await self._client.start().  Gives the
\* position of the caller and the state of the client after the test.
start(op) ==
    IF u_started THEN [pc |-> AfterStart(op), client_state |-> client_state]
    ELSE [pc |-> "client_start",
          client_state |-> IF client_state = "stopped" THEN "starting" ELSE client_state]

\* The calls are numbered in the order they are made.
NextCall(c) ==
    /\ call[c].pc = "idle"
    /\ \A q \in 1..(c - 1) : call[q].pc # "idle"

\* start() is called.
CallStart(c) ==
    /\ NextCall(c)
    /\ call' = [call EXCEPT ![c] = IF u_started THEN ReturnedCall
                                     ELSE [@ EXCEPT !.op = "start", !.pc = "client_start"]]
    /\ client_state' = start("start").client_state
    /\ UNCHANGED <<u_started, u_lock, history, replies, clock, u_others>>

\* search_and_download(query, destination_dir, limit) is called: await
\* self.start().
CallSearch(c) ==
    /\ NextCall(c)
    /\ \E limit \in 0..MaxLimit :
          call' = [call EXCEPT ![c].op = "search", ![c].limit = limit,
                               ![c].pc = start("search").pc]
    /\ client_state' = start("search").client_state
    /\ UNCHANGED <<u_started, u_lock, history, replies, clock, u_others>>

\* stop() is called: if self._started: await self._client.stop().
CallStop(c) ==
    /\ NextCall(c)
    /\ call' = [call EXCEPT ![c] = IF u_started
                                     THEN [@ EXCEPT !.op = "stop", !.pc = "client_stop"]
                                     ELSE ReturnedCall]
    /\ client_state' = IF u_started THEN "stopping" ELSE client_state
    /\ UNCHANGED <<u_started, u_lock, history, replies, clock, u_others>>

\* self._client.start() returned: self._started = True.
ClientStartReturns(c) ==
    /\ call[c].pc = "client_start"
    /\ u_started' = TRUE
    /\ client_state' = "started"
    /\ call' = [call EXCEPT ![c] = IF call[c].op = "search"
                                     THEN [@ EXCEPT !.pc = AfterStart("search")]
                                     ELSE ReturnedCall]
    /\ UNCHANGED <<u_lock, history, replies, clock, u_others>>

\* self._client.start() raised: the call ends with the exception.
ClientStartRaises(c) ==
    /\ call[c].pc = "client_start"
    /\ client_state' =
          IF client_state = "starting"
             /\ \A q \in 1..MaxCalls : q # c => call[q].pc # "client_start"
          THEN "stopped" ELSE client_state
    /\ call' = [call EXCEPT ![c] = RaisedCall]
    /\ UNCHANGED <<u_started, u_lock, history, replies, clock, u_others>>

\* self._client.stop() returned: self._started = False.
ClientStopReturns(c) ==
    /\ call[c].pc = "client_stop"
    /\ u_started' = FALSE
    /\ client_state' = "stopped"
    /\ call' = [call EXCEPT ![c] = ReturnedCall]
    /\ UNCHANGED <<u_lock, history, replies, clock, u_others>>

\* async with self._lock: the lock is taken; await get_users("TgSoundBot").
AcquireLock(c) ==
    /\ call[c].pc = "lock"
    /\ u_lock = 0
    /\ u_lock' = c
    /\ call' = [call EXCEPT ![c].pc = "get_users"]
    /\ UNCHANGED <<u_started, client_state, history, replies, clock, u_others>>

\* get_users returned; await send_message(bot_chat.id, query).
GetUsers(c) ==
    /\ call[c].pc = "get_users"
    /\ call' = [call EXCEPT ![c].pc = "send"]
    /\ UNCHANGED <<u_started, u_lock, client_state, history, replies, clock, u_others>>

\* The request message is in the chat: start_ts is its date, found and
\* seen_file_ids start empty.
SendMessage(c) ==
    /\ call[c].pc = "send"
    /\ history' = Append(history, ChatMessage(clock, ""))
    /\ call' = [call EXCEPT ![c].pc = "while", ![c].start_ts = clock,
                             ![c].found = <<>>, ![c].seen_file_ids = {}]
    /\ UNCHANGED <<u_started, u_lock, client_state, replies, clock, u_others>>

\* while time.monotonic() < deadline and len(found) < limit: the body is
\* entered and the history is read.
WhileEnters(c) ==
    /\ call[c].pc = "while"
    /\ Len(call[c].found) < call[c].limit
    /\ call' = [call EXCEPT ![c].pc = "history", ![c].todo = get_chat_history(history)]
    /\ UNCHANGED <<u_started, u_lock, client_state, history, replies, clock, u_others>>

\* The loop ends (the deadline may have passed at any test): return found,
\* and the lock is released.
WhileExits(c) ==
    /\ call[c].pc = "while"
    /\ u_lock' = 0
    /\ call' = [call EXCEPT ![c] = ReturnedCall]
    /\ UNCHANGED <<u_started, client_state, history, replies, clock, u_others>>

\* After the async for: if len(found) < limit: await asyncio.sleep(2).
AfterFor(found, limit) == IF Len(found) < limit THEN "sleep" ELSE "while"

\* The iteration yields its next message, or is exhausted.
HistoryNext(c) ==
    /\ call[c].pc = "history"
    /\ LET run == call[c]
           msg == Head(run.todo)
       IN  call' = [call EXCEPT ![c] =
              IF run.todo = <<>> \/ msg.date < run.start_ts
              THEN [run EXCEPT !.pc = AfterFor(run.found, run.limit), !.todo = <<>>]
              ELSE IF Skips(msg.file_unique_id, run.seen_file_ids)
              THEN [run EXCEPT !.todo = Tail(@)]
              ELSE [run EXCEPT !.pc = "download",
                               !.seen_file_ids = @ \cup {msg.file_unique_id}]]
    /\ UNCHANGED <<u_started, u_lock, client_state, history, replies, clock, u_others>>

\* download_media returned a path (saved) or None.
DownloadReturns(c) ==
    /\ call[c].pc = "download"
    /\ \E saved \in BOOLEAN :
          LET run == call[c]
              msg == Head(run.todo)
              found == IF saved THEN Append(run.found, DownloadedTrack(msg.file_unique_id))
                       ELSE run.found
              downloads == Append(run.downloads, [msg |-> msg, saved |-> saved])
          IN  call' = [call EXCEPT ![c] =
                 IF saved /\ Len(found) >= run.limit
                 THEN [run EXCEPT !.pc = AfterFor(found, run.limit), !.todo = <<>>,
                                  !.found = found, !.downloads = downloads]
                 ELSE [run EXCEPT !.pc = "history", !.todo = Tail(@),
                                  !.found = found, !.downloads = downloads]]
    /\ UNCHANGED <<u_started, u_lock, client_state, history, replies, clock, u_others>>

\* asyncio.sleep(2) is over.
Slept(c) ==
    /\ call[c].pc = "sleep"
    /\ call' = [call EXCEPT ![c].pc = "while"]
    /\ UNCHANGED <<u_started, u_lock, client_state, history, replies, clock, u_others>>

\* A request of the client raises inside the lock: the call ends with the
\* exception and the lock is released.
ExchangeRaises(c) ==
    /\ call[c].pc \in {"get_users", "send", "download"}
    /\ u_lock' = 0
    /\ call' = [call EXCEPT ![c] = RaisedCall]
    /\ UNCHANGED <<u_started, client_state, history, replies, clock, u_others>>

\* TgSoundBot posts a message to the chat.
BotReplies ==
    /\ replies < MaxReplies
    /\ replies' = replies + 1
    /\ \E file_unique_id \in FILE_IDS \cup {""} :
          history' = Append(history, ChatMessage(clock, file_unique_id))
    /\ UNCHANGED <<u_started, u_lock, client_state, call, clock, u_others>>

\* A second passes.
Tick ==
    /\ clock < MaxClock
    /\ clock' = clock + 1
    /\ UNCHANGED <<u_started, u_lock, client_state, call, history, replies, u_others>>

NextUserbot ==
    \/ \E c \in 1..MaxCalls : CallStart(c)
    \/ \E c \in 1..MaxCalls : CallSearch(c)
    \/ \E c \in 1..MaxCalls : CallStop(c)
    \/ \E c \in 1..MaxCalls : ClientStartReturns(c)
    \/ \E c \in 1..MaxCalls : ClientStartRaises(c)
    \/ \E c \in 1..MaxCalls : ClientStopReturns(c)
    \/ \E c \in 1..MaxCalls : AcquireLock(c)
    \/ \E c \in 1..MaxCalls : GetUsers(c)
    \/ \E c \in 1..MaxCalls : SendMessage(c)
    \/ \E c \in 1..MaxCalls : WhileEnters(c)
    \/ \E c \in 1..MaxCalls : WhileExits(c)
    \/ \E c \in 1..MaxCalls : HistoryNext(c)
    \/ \E c \in 1..MaxCalls : DownloadReturns(c)
    \/ \E c \in 1..MaxCalls : Slept(c)
    \/ \E c \in 1..MaxCalls : ExchangeRaises(c)
    \/ BotReplies
    \/ Tick

SpecUserbot == InitBot /\ [][NextUserbot]_vars

(***************************************************************************)
(* Properties of the handlers.                                             *)
(***************************************************************************)
\* The runs of genre_selected between their start and their return.
InFlight == {k \in 1..MaxAcquisitions : acq[k].pc \notin {"idle", "returned"}}

\* The payloads a handler can still clean up: the pending one and those held
\* by the publish handlers in flight.
LivePayloads ==
    {pending_posts[i] : i \in 1..Len(pending_posts)}
    \cup UNION {{pub[p].payload[i] : i \in 1..Len(pub[p].payload)} : p \in 1..MaxPublishes}

(***************************************************************************)
(* C1: when genre_selected reports a failure to the admin, no file written *)
(* during that attempt is on disk.                                         *)
(***************************************************************************)
C1_FailedAttemptLeavesNoFile ==
    \A k \in 1..MaxAcquisitions :
        acq[k].pc = "except" => acq[k].written \cap temp_files = {}

(***************************************************************************)
(* C2: every file under temp_root belongs to the post stored in            *)
(* pending_posts or to an acquisition in flight (or to a payload a publish *)
(* handler in flight is about to clean up).                                *)
(***************************************************************************)
C2_EveryTempFileIsOwned ==
    temp_files \subseteq
        UNION {PayloadFiles(payload) : payload \in LivePayloads}
        \cup UNION {acq[k].written : k \in InFlight}

(***************************************************************************)
(* C4: cleanup_post_payload is idempotent: on every payload a handler can  *)
(* hold, a call does not raise and removes only files listed in the        *)
(* payload, and a second call on the same payload does not raise and       *)
(* leaves the files as the first call left them.                           *)
(***************************************************************************)
C4_CleanupIsIdempotent ==
    \A payload \in LivePayloads :
        LET once == cleanup_post_payload(temp_files, payload)
            twice == cleanup_post_payload(once.files, payload)
        IN  /\ ~once.raised
            /\ ~twice.raised
            /\ twice.files = once.files
            /\ (temp_files \ once.files) \subseteq PayloadFiles(payload)
            /\ once.files \cap PayloadFiles(payload) = {}

\* The cancel handler has cleaned up and popped the payload that a publish
\* handler still holds: the finally of that handler is the second call.
C4_Witness ==
    \E p \in 1..MaxPublishes :
        /\ pub[p].pc = "publishing"
        /\ pending_posts = <<>>
        /\ PayloadFiles(pub[p].payload[1]) \cap temp_files = {}

(***************************************************************************)
(* C8: a failed download of one candidate, discovered or emergency, never  *)
(* aborts the acquisition, and an empty file is never kept as a track.     *)
(***************************************************************************)
C8_DownloadFailureNeverAborts ==
    \A k \in 1..MaxAcquisitions :
        /\ ~(acq[k].pc = "except" /\ acq[k].cause = "download")
        /\ ~acq[k].accepted_empty

(***************************************************************************)
(* C9: a prepared post holds a file of an emergency track exactly when the *)
(* stage indicator is greater than 1 and the fallback notice was sent.     *)
(***************************************************************************)
C9_FallbackReportedIffEmergency ==
    \A k \in 1..MaxAcquisitions :
        acq[k].pc = "preview" =>
            ((\E i \in 1..Len(acq[k].sources) : IsEmergency(acq[k].sources[i]))
                <=> (acq[k].stage_used > 1 /\ acq[k].notice))

(***************************************************************************)
(* C12: every payload stored in pending_posts (and every payload a publish *)
(* handler holds) has one image path and exactly two track files, all of   *)
(* different names: download_tracks raises or returns two paths.           *)
(***************************************************************************)
C12_StoredPostHasTwoTrackFiles ==
    \A payload \in LivePayloads :
        /\ Len(payload.track_files) = 2
        /\ payload.image_path # IdleAcquisition.image_path
        /\ Cardinality(PayloadFiles(payload)) = 3

\* A post is stored whose two discovered downloads failed: both of its files
\* are the emergency tracks of the padding.
C12_Witness ==
    /\ pending_posts # <<>>
    /\ \E k \in 1..MaxAcquisitions :
          /\ acq[k].pc = "preview"
          /\ ~IsEmergency(acq[k].tracks[1])
          /\ ~IsEmergency(acq[k].tracks[2])
          /\ \A i \in 1..Len(acq[k].sources) : IsEmergency(acq[k].sources[i])

(***************************************************************************)
(* C13: while genre_selected reports a failure to the admin, and after it, *)
(* pending_posts holds no payload of that attempt.  (A run in its except   *)
(* branch still has its image_path; the payload of an attempt is the one   *)
(* with that image.)                                                       *)
(***************************************************************************)
C13_FailedAttemptLeavesNoPayload ==
    \A k \in 1..MaxAcquisitions :
        acq[k].pc = "except" =>
            \A i \in 1..Len(pending_posts) : pending_posts[i].image_path # acq[k].image_path

(***************************************************************************)
(* C14: each audio file of a preview is sent with the title and artist of  *)
(* the track it was downloaded from.  (The payload of a run is the one     *)
(* with its image; sources[i] is the track file i was downloaded from.)    *)
(***************************************************************************)
C14_FilesCarryTheirOwnLabels ==
    \A k \in 1..MaxAcquisitions :
        acq[k].pc = "preview" =>
            \A n \in 1..Len(pending_posts) :
                pending_posts[n].image_path = acq[k].image_path =>
                    \A i \in 1..Len(pending_posts[n].track_files) :
                        /\ SentLabels(pending_posts[n])[i].title = acq[k].sources[i].title
                        /\ SentLabels(pending_posts[n])[i].performer = acq[k].sources[i].artist

(***************************************************************************)
(* C15: the files of two acquisitions never lie in the same directory:     *)
(* each acquisition writes into a directory of its own.                    *)
(***************************************************************************)
C15_AcquisitionsHaveTheirOwnDirectory ==
    \A k1, k2 \in InFlight :
        k1 # k2 =>
            \A f1 \in acq[k1].written, f2 \in acq[k2].written : Parent(f1) # Parent(f2)

(***************************************************************************)
(* Further properties of the discovery.                                    *)
(***************************************************************************)
(***************************************************************************)
(* C16: within one fetch_tracks_with_fallback call no feed URL is          *)
(* requested twice.                                                        *)
(***************************************************************************)
C16_NoFeedRequestedTwice ==
    \A i, j \in 1..Len(d_requested) :
        i < j => d_requested[i][2] # d_requested[j][2]

(***************************************************************************)
(* C17: a track found by a stage that fell short is carried forward: when  *)
(* a stage that returned exactly one track gives way to the next, that     *)
(* track is still among the tracks collected (or returned).                *)
(***************************************************************************)
C17_EarlierTrackCarriedForward ==
    [][(d_pc = "fetch" /\ d_stage' = d_stage + 1 /\ Len(d_pool) = 1) =>
          \/ \E j \in 1..Len(d_pool') : d_pool'[j] = d_pool[1]
          \/ \E j \in 1..Len(d_tracks') : d_tracks'[j] = d_pool[1]]_vars

(***************************************************************************)
(* C18: when the best-effort stage yields one or more tracks, every track  *)
(* returned is a track of its pool and no emergency track is added.        *)
(***************************************************************************)
C18_EmergencyOnlyWhenNoFeedTrack ==
    (d_pc = "done" /\ d_stage_len[4] >= 1) =>
        /\ d_emergency = 0
        /\ \A i \in 1..Len(d_tracks) : \E j \in 1..Len(d_pool) : d_pool[j] = d_tracks[i]

(***************************************************************************)
(* Further properties of the handlers.                                     *)
(***************************************************************************)
(***************************************************************************)
(* C19: at most one genre_selected run is in flight at any time.           *)
(***************************************************************************)
C19_AtMostOneAcquisitionInFlight == Cardinality(InFlight) <= 1

(***************************************************************************)
(* C20: a run during which the admin cancelled stores no payload: while    *)
(* it sends its preview, pending_posts holds no payload of that run (the   *)
(* one with its image) and its files are no longer on disk.                *)
(***************************************************************************)
C20_AbandonedRunStoresNoPayload ==
    \A k \in 1..MaxAcquisitions :
        (acq[k].abandoned /\ acq[k].pc = "preview") =>
            /\ \A i \in 1..Len(pending_posts) :
                  pending_posts[i].image_path # acq[k].image_path
            /\ acq[k].written \cap temp_files = {}

(***************************************************************************)
(* C21: publish_post is started at most once for a stored payload: no two  *)
(* handle_post_publish runs are publishing the same payload.               *)
(***************************************************************************)
C21_PayloadPublishedAtMostOnce ==
    \A p1, p2 \in 1..MaxPublishes :
        (p1 # p2 /\ pub[p1].pc = "publishing" /\ pub[p2].pc = "publishing") =>
            pub[p1].payload # pub[p2].payload

(***************************************************************************)
(* C22: a stored poll is sent to the channel at most once: no preview id   *)
(* occurs twice among the channel send_poll calls, a poll that was sent or *)
(* is being sent is not pending, and every step of handle_poll_publish or  *)
(* handle_poll_cancel that takes the entry leaves no pending poll.         *)
(***************************************************************************)
PollSentOnce ==
    /\ \A i, j \in 1..Len(channel_polls) : i < j => channel_polls[i] # channel_polls[j]
    /\ \A i \in 1..Len(pending_polls), j \in 1..Len(channel_polls) :
          pending_polls[i].preview_poll_message_id # channel_polls[j]
    /\ \A p \in 1..MaxPollPublishes, i \in 1..Len(pending_polls) :
          poll_pub[p].pc = "sending" => poll_pub[p].payload[1] # pending_polls[i]

PollTaken ==
    \/ \E p \in 1..MaxPollPublishes : PollPublish(p)
    \/ PollCancel

C22_PollSentAtMostOnce ==
    /\ []PollSentOnce
    /\ [][PollTaken => pending_polls' = <<>>]_vars

C22_Witness ==
    /\ Len(channel_polls) = 2
    /\ pending_polls = <<>>
    /\ \A p \in 1..MaxPollPublishes : poll_pub[p].pc = "sending"

(***************************************************************************)
(* C23: the client is started at most once at a time: no two calls are     *)
(* awaiting Client.start() together, and none awaits it while the client   *)
(* is started.                                                             *)
(***************************************************************************)
C23_ClientStartedOnce ==
    /\ Cardinality({c \in 1..MaxCalls : call[c].pc = "client_start"}) <= 1
    /\ \A c \in 1..MaxCalls : call[c].pc = "client_start" => client_state = "starting"

(***************************************************************************)
(* C24: in a search_and_download call, found never holds more than `limit` *)
(* tracks nor two tracks of one file_unique_id; every track in it was      *)
(* downloaded from a message of the chat dated no earlier than the call's  *)
(* request message; no id is downloaded twice, and an id whose download    *)
(* gave no path is not in found; and only the call that holds the lock is  *)
(* between its first request and its return.                               *)
(***************************************************************************)
Exchanging ==
    {c \in 1..MaxCalls :
        call[c].pc \in {"get_users", "send", "while", "history", "download", "sleep"}}

C24_SearchReturnsFreshDistinctTracks ==
    /\ Cardinality(Exchanging) <= 1
    /\ \A c \in Exchanging : u_lock = c
    /\ \A c \in Exchanging :
          LET found == call[c].found
              downloads == call[c].downloads
          IN  /\ Len(found) <= call[c].limit
              /\ \A i, j \in 1..Len(found) : i < j => found[i].file_path # found[j].file_path
              /\ \A i \in 1..Len(found) :
                    \E j \in 1..Len(downloads) :
                        /\ downloads[j].saved
                        /\ downloads[j].msg.file_unique_id = found[i].file_path
              /\ \A j \in 1..Len(downloads) :
                    /\ downloads[j].msg.date >= call[c].start_ts
                    /\ \E n \in 1..Len(history) : history[n] = downloads[j].msg
                    /\ downloads[j].msg.file_unique_id # ""
                    /\ ~downloads[j].saved =>
                          \A i \in 1..Len(found) :
                              found[i].file_path # downloads[j].msg.file_unique_id
              /\ \A i, j \in 1..Len(downloads) :
                    i < j => downloads[i].msg.file_unique_id # downloads[j].msg.file_unique_id

\* A call that asked for two tracks holds one: the download of "b" gave no
\* path, "a" was saved, and the iteration now yields another message with
\* "b", no older than the request; the other call waits for the lock.
C24_Witness ==
    \E c, w \in 1..MaxCalls :
        /\ call[c].pc = "history" /\ call[c].limit = 2
        /\ call[w].pc = "lock"
        /\ call[c].found = <<DownloadedTrack("a")>>
        /\ Len(call[c].downloads) = 2
        /\ call[c].downloads[1].msg.file_unique_id = "b" /\ ~call[c].downloads[1].saved
        /\ call[c].todo # <<>>
        /\ Head(call[c].todo).file_unique_id = "b"
        /\ Head(call[c].todo).date >= call[c].start_ts

=============================================================================
